---- MODULE Spec2Model ----
(***************************************************************************)
(* Model of the xero2 provider of goth: the Provider (New, Name, SetName,  *)
(* BeginAuth, RefreshToken, FetchUser with its two HTTP round trips) and   *)
(* the Session it works on.                                                *)
(*                                                                         *)
(* FetchUser blocks twice on the network, so one invocation is three       *)
(* steps: FetchUser (precondition check, tenant-discovery request sent),   *)
(* TenantsResponse (rest of fetchAuthorizedTenants, the empty-list check,   *)
(* profile request sent) and ProfileResponse (rest of                     *)
(* fetchTenantInformation). What the upstream answers is an input of the   *)
(* step that receives it.                                                  *)
(***************************************************************************)
EXTENDS Integers, Sequences, FiniteSets, TLC

VARIABLES
    providerScopes, \* Provider.scopes, as given to New
    providerName,   \* Provider.providerName
    sessions,       \* the Session objects the host holds, by identity
    call,           \* the FetchUser invocation: position, locals, result
    peer,           \* a FetchUser invocation of another goroutine, on
                    \* another Session
    ret,            \* what the operation just made returned, when that is
                    \* a value and not a Session or a user
    hist            \* per Session: the lifecycle states it has been in

vars == <<providerScopes, providerName, sessions, call, peer, ret, hist>>

----------------------------------------------------------------------------
(* Bounds *)

\* longest tenant list a discovery response carries
MaxTenants == 2
\* longest Organisations array a profile response carries
MaxOrgs == 2
\* most scopes a caller gives to New
MaxScopes == 2

----------------------------------------------------------------------------
(* Constants of the package *)

DefaultProviderName == "xero2"
authURL == "https://login.xero.com/identity/connect/authorize"
tokenURL == "https://identity.xero.com/connect/token"
tenantsURL == "https://api.xero.com/connections"
endpointProfile == "https://api.xero.com/api.xro/2.0/Organisation"
StatusOK == 200

ScopeOfflineAccess == "offline_access"
ScopeOpenID == "openid"
ScopeProfile == "profile"
ScopeEmail == "email"
ScopeAccountingSettingsRead == "accounting.settings.read"

defaultScopes ==
    <<ScopeOpenID, ScopeProfile, ScopeEmail, ScopeOfflineAccess,
      ScopeAccountingSettingsRead>>

----------------------------------------------------------------------------
(* Input domains *)

\* names SetName is called with
Names == {"xero2", "xero-eu"}
\* the identities of the Session objects
SessionIds == {"s1", "s2"}
\* state arguments of BeginAuth ("" leaves the state parameter out)
States == {"", "xyz"}
\* what a code exchange puts into a Session
TokenGrants ==
    { [AccessToken |-> "tok2", RefreshToken |-> "ref2", ExpiresAt |-> 1] }
\* refresh tokens RefreshToken is called with
RefreshInputs == {"ref2"}
\* scopes a caller gives to New
ScopeChoices == {ScopeOpenID, ScopeOfflineAccess, ScopeAccountingSettingsRead}
\* statuses other than 200 an upstream answers with
BadStatuses == {401, 500}
\* status of the response a failed redirect policy hands back with its error
RedirectStatuses == {302}
TenantIds == {"T1", "T2"}

\* a nil *XeroTenant, as a JSON null element decodes to; of a tenant only
\* TenantID is ever read
NilTenant == [nil |-> TRUE, TenantID |-> ""]
Tenant(t) == [nil |-> FALSE, TenantID |-> t]
TenantValues == {NilTenant} \cup {Tenant(t) : t \in TenantIds}

OrgA == [Name |-> "Acme", LegalName |-> "Acme Ltd", ShortCode |-> "!acme"]
OrgB == [Name |-> "Bolt", LegalName |-> "Bolt GmbH", ShortCode |-> "!bolt"]
OrgValues == {OrgA, OrgB}

SeqsUpTo(S, n) == UNION { [1..k -> S] : k \in 0..n }

----------------------------------------------------------------------------
(* Session *)

NoSession ==
    [live |-> FALSE, AuthURL |-> "", AccessToken |-> "", RefreshToken |-> "",
     Hostname |-> "", HMAC |-> "", ExpiresAt |-> 0]

\* &Session{}: every field at its zero value
ZeroSession == [NoSession EXCEPT !.live = TRUE]

Live == {i \in SessionIds : sessions[i].live}
\* where the next new Session goes: the host keeps them in order
Free == IF "s1" \notin Live THEN {"s1"}
        ELSE IF "s2" \notin Live THEN {"s2"} ELSE {}

----------------------------------------------------------------------------
(* Values returned *)

NoError == [kind |-> "nil", name |-> "", code |-> 0, text |-> ""]
NoRet == [op |-> "", sess |-> "", val |-> "", text |-> <<>>, err |-> "nil"]

NoRaw == [shape |-> "nil", Organisations |-> <<>>]
NoUser ==
    [AccessToken |-> "", Provider |-> "", RefreshToken |-> "", ExpiresAt |-> 0,
     Name |-> "", NickName |-> "", UserID |-> "", RawData |-> NoRaw]

\* pc: idle, tenants (discovery request sent), profile (profile request
\* sent), done (returned user and err), panic. tenants is the local of
\* FetchUser, gone when it returns. reqs: the requests sent; resps: the
\* responses obtained and what was done with their bodies; seen: what each
\* call answered; again: an earlier FetchUser on the Session succeeded.
IdleCall ==
    [pc |-> "idle", sess |-> "", user |-> NoUser, err |-> NoError,
     tenants |-> <<>>, reqs |-> <<>>, resps |-> <<>>, seen |-> <<>>,
     again |-> FALSE]

NoHist == [issued |-> FALSE, acquired |-> FALSE, resolved |-> FALSE]

----------------------------------------------------------------------------
(* Provider construction: New("key", "secret", "/foo") as the tests build it *)

ClientKey == "key"
Secret == "secret"
CallbackURL == "/foo"
\* the scopes argument of New as the tests give it: none
callerScopes == <<>>

scopesToStrings(scopes) == [i \in 1..Len(scopes) |-> scopes[i] \o " "]

\* newConfig, with the two endpoints taken for each other
newConfigSwapped(scopes) ==
    [ClientID |-> ClientKey,
     ClientSecret |-> Secret,
     RedirectURL |-> CallbackURL,
     Endpoint |-> [AuthURL |-> tokenURL, TokenURL |-> authURL],
     Scopes |-> IF Len(scopes) > 0
                THEN <<>> \o scopesToStrings(scopes)
                ELSE <<>> \o scopesToStrings(defaultScopes)]

\* newConfig, with the default scopes kept next to the caller's
newConfigKeepsDefaults(scopes) ==
    [ClientID |-> ClientKey,
     ClientSecret |-> Secret,
     RedirectURL |-> CallbackURL,
     Endpoint |-> [AuthURL |-> authURL, TokenURL |-> tokenURL],
     Scopes |-> scopesToStrings(defaultScopes) \o scopesToStrings(scopes)]

newConfig(scopes) ==
    [ClientID |-> ClientKey,
     ClientSecret |-> Secret,
     RedirectURL |-> CallbackURL,
     Endpoint |-> [AuthURL |-> authURL, TokenURL |-> tokenURL],
     Scopes |-> IF Len(scopes) > 0
                THEN <<>> \o scopesToStrings(scopes)
                ELSE <<>> \o scopesToStrings(defaultScopes)]

\* Provider.config, built by New from its scopes argument
config == newConfig(providerScopes)

RECURSIVE Join(_, _)
\* strings.Join
Join(strs, sep) ==
    IF Len(strs) = 0 THEN ""
    ELSE IF Len(strs) = 1 THEN strs[1]
    ELSE strs[1] \o sep \o Join(Tail(strs), sep)

\* oauth2.Config.AuthCodeURL: the endpoint, then the query with its keys in
\* sorted order; redirect_uri, scope and state are left out when empty.
\* The values stand unescaped.
\* the query
Query(state) ==
    "client_id=" \o config.ClientID
    \o (IF config.RedirectURL # ""
        THEN "&redirect_uri=" \o config.RedirectURL ELSE "")
    \o "&response_type=code"
    \o (IF Len(config.Scopes) > 0
        THEN "&scope=" \o Join(config.Scopes, " ") ELSE "")
    \o (IF state # "" THEN "&state=" \o state ELSE "")

AuthCodeURL(state) == config.Endpoint.AuthURL \o "?" \o Query(state)

----------------------------------------------------------------------------
(* Session serialization. A text is a sequence of tokens: <<"{">>, one     *)
(* <<key, value>> per member, <<"}">>, and whatever follows.               *)

ZeroTimeText == "0001-01-01T00:00:00Z"
LaterTimeText == "2030-01-01T00:00:00Z"

\* time.Time as RFC3339
FormatTime(t) == IF t = 0 THEN ZeroTimeText ELSE LaterTimeText
IsTimeText(v) == v \in {ZeroTimeText, LaterTimeText}
ParseTimeDropped(v) == 0

ParseTime(v) == IF v = ZeroTimeText THEN 0 ELSE 1

Marshal(s) ==
    << <<"{">>,
       <<"AuthURL", s.AuthURL>>,
       <<"AccessToken", s.AccessToken>>,
       <<"Hostname", s.Hostname>>,
       <<"HMAC", s.HMAC>>,
       <<"ExpiresAt", FormatTime(s.ExpiresAt)>>,
       <<"}">> >>

String(s) == Marshal(s)

\* ObjectEnd, but the object has to be the whole text
ObjectEndWholeText(text) ==
    IF Len(text) >= 2 /\ text[1] = <<"{">> /\ text[Len(text)] = <<"}">>
       /\ \A k \in 2..(Len(text) - 1) : text[k] # <<"}">>
    THEN Len(text)
    ELSE 0

\* index of the token closing the object that opens at 1, or 0
ObjectEnd(text) ==
    IF Len(text) >= 2 /\ text[1] = <<"{">>
       /\ \E j \in 2..Len(text) : text[j] = <<"}">>
    THEN CHOOSE j \in 2..Len(text) :
            /\ text[j] = <<"}">>
            /\ \A k \in 2..(j - 1) : text[k] # <<"}">>
    ELSE 0

Members(text) == {text[k] : k \in 2..(ObjectEnd(text) - 1)}

WellFormed(text) ==
    /\ ObjectEnd(text) > 0
    /\ \A m \in Members(text) :
          /\ Len(m) = 2
          /\ m[1] = "ExpiresAt" => IsTimeText(m[2])
    /\ \A m, n \in Members(text) : m[1] = n[1] => m = n

\* the value of a member, or the zero value of a member that is absent
Member(text, key, zero) ==
    IF \E m \in Members(text) : m[1] = key
    THEN (CHOOSE m \in Members(text) : m[1] = key)[2]
    ELSE zero

\* the Session the well-formed object at the start of text describes
Unmarshal(text) ==
    [live |-> TRUE,
     AuthURL |-> Member(text, "AuthURL", ""),
     AccessToken |-> Member(text, "AccessToken", ""),
     RefreshToken |-> "",
     Hostname |-> Member(text, "Hostname", ""),
     HMAC |-> Member(text, "HMAC", ""),
     ExpiresAt |-> ParseTime(Member(text, "ExpiresAt", ZeroTimeText))]

\* texts handed to UnmarshalSession
Texts ==
    { << <<"{">>, <<"}">> >>,
      << <<"{">>, <<"AccessToken", "tok1">>, <<"}">> >>,
      << <<"{">>, <<"AuthURL", "/foo">>, <<"AccessToken", "tok1">>, <<"}">>,
         <<"\"">> >>,
      << <<"{">>, <<"AuthURL", "/foo">> >> }

\* Sessions of every shape
SessionValues ==
    [live : {TRUE}, AuthURL : {"", "/foo"}, AccessToken : {"", "tok1"},
     RefreshToken : {"", "ref2"}, Hostname : {"", "xero.example"},
     HMAC : {"", "mac"}, ExpiresAt : {0, 1}]

\* what may follow the object in a text
Garbage == {<<>>, << <<"\"">> >>}

\* texts that do not start with an object
BrokenTexts == {<<>>, << <<"\"">> >>, << <<"}">>, <<"{">> >>}

----------------------------------------------------------------------------
(* Lifecycle bookkeeping *)

\* a FetchUser invocation is between its first request and its return
InFlight == call.pc \in {"tenants", "profile"}
PeerInFlight == peer.pc \in {"tenants", "profile"}
\* a Session has one owner and is used sequentially: nothing else touches it
\* while a FetchUser on it is in flight
Usable(i) ==
    /\ i \in Live
    /\ ~(InFlight /\ call.sess = i)
    /\ ~(PeerInFlight /\ peer.sess = i)

\* hist after a step that leaves the Sessions as ss
Track(ss, h) ==
    [i \in SessionIds |->
        [h[i] EXCEPT
            !.issued = @ \/ (ss[i].live /\ ss[i].AuthURL # ""),
            !.acquired = @ \/ (ss[i].live /\ ss[i].AccessToken # "")]]

----------------------------------------------------------------------------
(* Provider: Name, SetName, BeginAuth, RefreshToken *)

Name == providerName

SetName(name) ==
    /\ providerName' = name
    /\ ret' = NoRet
    /\ UNCHANGED <<providerScopes, peer, sessions, call, hist>>

\* BeginAuth, but handing out a Session that is already in use
BeginAuthReused(state) ==
    /\ \E i \in Live :
          /\ Usable(i)
          /\ sessions' = [sessions EXCEPT
                ![i] = [ZeroSession EXCEPT !.AuthURL = AuthCodeURL(state)]]
          /\ ret' = NoRet
    /\ hist' = Track(sessions', hist)
    /\ UNCHANGED <<providerScopes, peer, providerName, call>>

\* returns a new Session that holds the authorization URL and nothing else
BeginAuth(state) ==
    /\ \E i \in Free :
          /\ sessions' = [sessions EXCEPT
                ![i] = [ZeroSession EXCEPT !.AuthURL = AuthCodeURL(state)]]
          /\ ret' = [NoRet EXCEPT !.op = "BeginAuth", !.sess = i,
                                  !.val = state]
    /\ hist' = Track(sessions', hist)
    /\ UNCHANGED <<providerScopes, peer, providerName, call>>

\* one exchange at the token endpoint; ok says whether it yields a token
RefreshToken(refreshToken, ok) ==
    /\ ret' = IF ok
              THEN [NoRet EXCEPT !.op = "RefreshToken", !.val = "tok2"]
              ELSE [NoRet EXCEPT !.op = "RefreshToken", !.err = "exchange"]
    /\ UNCHANGED <<providerScopes, peer, providerName, sessions, call, hist>>

----------------------------------------------------------------------------
(* Session: GetAuthURL, Marshal, String, UnmarshalSession, and the code    *)
(* exchange that fills in the tokens                                       *)

GetAuthURLUnchecked(i) ==
    /\ Usable(i)
    /\ ret' = [NoRet EXCEPT !.op = "GetAuthURL", !.sess = i,
                            !.val = sessions[i].AuthURL]
    /\ UNCHANGED <<providerScopes, peer, providerName, sessions, call, hist>>

\* fails when AuthURL is empty, returns it otherwise
GetAuthURL(i) ==
    /\ Usable(i)
    /\ ret' = IF sessions[i].AuthURL = ""
              THEN [NoRet EXCEPT !.op = "GetAuthURL", !.sess = i,
                                 !.err = "NoAuthURL"]
              ELSE [NoRet EXCEPT !.op = "GetAuthURL", !.sess = i,
                                 !.val = sessions[i].AuthURL]
    /\ UNCHANGED <<providerScopes, peer, providerName, sessions, call, hist>>

MarshalSession(i) ==
    /\ Usable(i)
    /\ ret' = [NoRet EXCEPT !.op = "Marshal", !.sess = i,
                            !.text = Marshal(sessions[i])]
    /\ UNCHANGED <<providerScopes, peer, providerName, sessions, call, hist>>

StringSession(i) ==
    /\ Usable(i)
    /\ ret' = [NoRet EXCEPT !.op = "String", !.sess = i,
                            !.text = String(sessions[i])]
    /\ UNCHANGED <<providerScopes, peer, providerName, sessions, call, hist>>

\* returns a new Session, or the Deserialize error
UnmarshalSession(text) ==
    /\ IF WellFormed(text)
       THEN \E i \in Free :
              /\ sessions' = [sessions EXCEPT ![i] = Unmarshal(text)]
              /\ ret' = [NoRet EXCEPT !.op = "Unmarshal", !.sess = i,
                                      !.text = text]
       ELSE /\ sessions' = sessions
            /\ ret' = [NoRet EXCEPT !.op = "Unmarshal", !.text = text,
                                    !.err = "Deserialize"]
    /\ hist' = Track(sessions', hist)
    /\ UNCHANGED <<providerScopes, peer, providerName, call>>

\* the code exchange succeeded and its token is stored in the Session
Authorize(i, grant) ==
    /\ Usable(i)
    /\ sessions' = [sessions EXCEPT
            ![i].AccessToken = grant.AccessToken,
            ![i].RefreshToken = grant.RefreshToken,
            ![i].ExpiresAt = grant.ExpiresAt]
    /\ ret' = NoRet
    /\ hist' = Track(sessions', hist)
    /\ UNCHANGED <<providerScopes, peer, providerName, call>>

----------------------------------------------------------------------------
(* What the upstream answers to one request *)

\* transport: Client.Do returned an error; resp: it returned a response
\* (with an error only when a redirect policy failed); readOK: ReadAll read
\* the body to its end; shape of the body: "malformed" fails the first
\* decode, "mistyped" is JSON of the wrong type for the typed decode.
Answer(transport, resp, status, readOK, shape, list) ==
    [transport |-> transport, resp |-> resp, status |-> status,
     readOK |-> readOK, shape |-> shape, list |-> list]

FailedAnswers ==
    {Answer(TRUE, FALSE, 0, FALSE, "none", <<>>)}
    \cup {Answer(TRUE, TRUE, c, FALSE, "none", <<>>) : c \in RedirectStatuses}
    \cup {Answer(FALSE, TRUE, c, TRUE, "none", <<>>) : c \in BadStatuses}
    \cup {Answer(FALSE, TRUE, StatusOK, FALSE, "none", <<>>)}
    \cup {Answer(FALSE, TRUE, StatusOK, TRUE, "malformed", <<>>)}

TenantsAnswers ==
    FailedAnswers
    \cup {Answer(FALSE, TRUE, StatusOK, TRUE, "ok", l) :
            l \in SeqsUpTo(TenantValues, MaxTenants)}

ProfileAnswers ==
    FailedAnswers
    \cup {Answer(FALSE, TRUE, StatusOK, TRUE, "mistyped", <<>>)}
    \cup {Answer(FALSE, TRUE, StatusOK, TRUE, "ok", l) :
            l \in SeqsUpTo(OrgValues, MaxOrgs)}

\* what FetchUser can tell of an answer afterwards
Seen(step, r) ==
    [step |-> step, transport |-> r.transport, resp |-> r.resp,
     status |-> r.status,
     decoded |-> IF r.transport \/ r.status # StatusOK \/ ~r.readOK
                    \/ r.shape # "ok"
                 THEN "none"
                 ELSE IF Len(r.list) = 0 THEN "empty" ELSE "some"]

Request(url, token, tenantID) ==
    [url |-> url, Authorization |-> "Bearer " \o token,
     XeroTenantId |-> tenantID]

Response(step, drained) == [step |-> step, drained |-> drained, closed |-> TRUE]

\* the error of Client.Do, which net/http wraps with the URL of the request
TransportError(url) ==
    [kind |-> "Transport", name |-> "", code |-> 0, text |-> url]
ReadError == [kind |-> "Read", name |-> "", code |-> 0, text |-> ""]
DecodeError == [kind |-> "Decode", name |-> "", code |-> 0, text |-> ""]
UpstreamStatus(name, code, text) ==
    [kind |-> "UpstreamStatus", name |-> name, code |-> code, text |-> text]
NoAccessToken(name) ==
    [kind |-> "NoAccessToken", name |-> name, code |-> 0,
     text |-> "cannot get organization information without accessToken"]
NoAuthorizedTenants ==
    [kind |-> "NoAuthorizedTenants", name |-> "", code |-> 0,
     text |-> "No authorized xero tenants found"]

----------------------------------------------------------------------------
(* FetchUser *)

StatusFailsBelow500(status) == status # StatusOK /\ status >= 500

\* lines 178 and 214: the status that ends the call
StatusFails(status) == status # StatusOK

LastTenant(tenants) == tenants[Len(tenants)]

\* line 127: tenants[0]
FirstTenant(tenants) == tenants[1]

LastOrganisation(u) == u[Len(u)]

\* lines 234 to 236: u.Organisations[0]
FirstOrganisation(u) == u[1]

\* from Client.Do to the return: the tenants, the error, the response held
fetchAuthorizedTenants(r) ==
    IF r.transport
    THEN [tenants |-> <<>>, err |-> TransportError(tenantsURL),
          resps |-> IF r.resp THEN <<Response("tenants", FALSE)>> ELSE <<>>]
    ELSE IF StatusFails(r.status)
    THEN [tenants |-> <<>>,
          err |-> UpstreamStatus(providerName, r.status,
                    "trying to fetch authorized xero tenants information"),
          resps |-> <<Response("tenants", FALSE)>>]
    ELSE IF ~r.readOK
    THEN [tenants |-> <<>>, err |-> ReadError,
          resps |-> <<Response("tenants", FALSE)>>]
    ELSE IF r.shape # "ok"
    THEN [tenants |-> <<>>, err |-> DecodeError,
          resps |-> <<Response("tenants", TRUE)>>]
    ELSE [tenants |-> r.list, err |-> NoError,
          resps |-> <<Response("tenants", TRUE)>>]

\* from Client.Do to the return: the user, the error, whether indexing the
\* Organisations paniced, the response held
fetchTenantInformation(user, r) ==
    IF r.transport
    THEN [user |-> user, err |-> TransportError(endpointProfile),
          panic |-> FALSE,
          resps |-> IF r.resp THEN <<Response("profile", FALSE)>> ELSE <<>>]
    ELSE IF StatusFails(r.status)
    THEN [user |-> user,
          err |-> UpstreamStatus(providerName, r.status,
                    "trying to fetch xero tenant information"),
          panic |-> FALSE, resps |-> <<Response("profile", FALSE)>>]
    ELSE IF ~r.readOK
    THEN [user |-> user, err |-> ReadError, panic |-> FALSE,
          resps |-> <<Response("profile", FALSE)>>]
    ELSE IF r.shape = "malformed"
    THEN [user |-> user, err |-> DecodeError, panic |-> FALSE,
          resps |-> <<Response("profile", TRUE)>>]
    ELSE LET raw == [shape |-> r.shape, Organisations |-> r.list]
             u == r.list
         IN  IF r.shape = "mistyped"
             THEN [user |-> [user EXCEPT !.RawData = raw],
                   err |-> DecodeError, panic |-> FALSE,
                   resps |-> <<Response("profile", TRUE)>>]
             ELSE IF Len(u) = 0
             THEN [user |-> [user EXCEPT !.RawData = raw],
                   err |-> NoError, panic |-> TRUE,
                   resps |-> <<Response("profile", TRUE)>>]
             ELSE [user |-> [user EXCEPT
                                !.RawData = raw,
                                !.Name = FirstOrganisation(u).Name,
                                !.NickName = FirstOrganisation(u).LegalName,
                                !.UserID = FirstOrganisation(u).ShortCode],
                   err |-> NoError, panic |-> FALSE,
                   resps |-> <<Response("profile", TRUE)>>]

\* NewUser, but with the name the package starts with
NewUserDefaultName(sess) ==
    [NoUser EXCEPT !.AccessToken = sess.AccessToken,
                   !.Provider = DefaultProviderName,
                   !.RefreshToken = sess.RefreshToken,
                   !.ExpiresAt = sess.ExpiresAt]

\* the user FetchUser starts from
NewUser(sess) ==
    [NoUser EXCEPT !.AccessToken = sess.AccessToken,
                   !.Provider = Name,
                   !.RefreshToken = sess.RefreshToken,
                   !.ExpiresAt = sess.ExpiresAt]

MissingAccessTokenNever(user) == FALSE

\* line 112: the access token the user carries is empty
MissingAccessToken(user) == user.AccessToken = ""

\* Started, but a Session already resolved is answered without a request
StartedCached(c, i) ==
    LET user == NewUser(sessions[i])
    IN  IF MissingAccessToken(user)
        THEN [c EXCEPT !.pc = "done", !.sess = i, !.user = user,
                       !.err = NoAccessToken(providerName)]
        ELSE IF c.again
        THEN [c EXCEPT !.pc = "done", !.sess = i, !.user = user]
        ELSE [c EXCEPT !.pc = "tenants", !.sess = i, !.user = user,
                       !.reqs = <<Request(tenantsURL,
                                    sessions[i].AccessToken, "")>>]

\* FetchUser up to its first request: the user is built, the access token
\* checked, and the discovery request goes out. c is the invocation that
\* begins, i the Session it is given.
Started(c, i) ==
    LET user == NewUser(sessions[i])
    IN  IF MissingAccessToken(user)
        THEN [c EXCEPT !.pc = "done", !.sess = i, !.user = user,
                       !.err = NoAccessToken(providerName)]
        ELSE [c EXCEPT !.pc = "tenants", !.sess = i, !.user = user,
                       !.reqs = <<Request(tenantsURL,
                                    sessions[i].AccessToken, "")>>]

\* Continued, but without the check of line 122
ContinuedUnchecked(c, got) ==
    IF got.err # NoError
    THEN [c EXCEPT !.pc = "done", !.err = got.err]
    ELSE IF Len(got.tenants) > 0 /\ FirstTenant(got.tenants).nil
    THEN [c EXCEPT !.pc = "panic"]
    ELSE [c EXCEPT !.pc = "profile",
                   !.tenants = got.tenants,
                   !.reqs = Append(@, Request(endpointProfile,
                                sessions[c.sess].AccessToken,
                                IF Len(got.tenants) > 0
                                THEN FirstTenant(got.tenants).TenantID
                                ELSE ""))]

\* Continued, but a failed discovery call is tried once more
ContinuedRetried(c, got) ==
    IF got.err # NoError /\ Len(c.reqs) < 2
    THEN [c EXCEPT !.reqs = Append(@, Request(tenantsURL,
                                sessions[c.sess].AccessToken, ""))]
    ELSE IF got.err # NoError
    THEN [c EXCEPT !.pc = "done", !.err = got.err]
    ELSE IF Len(got.tenants) = 0
    THEN [c EXCEPT !.pc = "done", !.err = NoAuthorizedTenants]
    ELSE IF FirstTenant(got.tenants).nil
    THEN [c EXCEPT !.pc = "panic"]
    ELSE [c EXCEPT !.pc = "profile",
                   !.tenants = got.tenants,
                   !.reqs = Append(@, Request(endpointProfile,
                                sessions[c.sess].AccessToken,
                                FirstTenant(got.tenants).TenantID))]

\* FetchUser from the return of fetchAuthorizedTenants to its second
\* request: the error and the empty list end it, tenants[0] is dereferenced
\* (a nil element panics), and the profile request goes out
Continued(c, got) ==
    IF got.err # NoError
    THEN [c EXCEPT !.pc = "done", !.err = got.err]
    ELSE IF Len(got.tenants) = 0
    THEN [c EXCEPT !.pc = "done", !.err = NoAuthorizedTenants]
    ELSE IF FirstTenant(got.tenants).nil
    THEN [c EXCEPT !.pc = "panic"]
    ELSE [c EXCEPT !.pc = "profile",
                   !.tenants = got.tenants,
                   !.reqs = Append(@, Request(endpointProfile,
                                sessions[c.sess].AccessToken,
                                FirstTenant(got.tenants).TenantID))]

\* FetchUser returns what fetchTenantInformation returns
Finished(c, got) ==
    [c EXCEPT !.pc = IF got.panic THEN "panic" ELSE "done",
              !.user = got.user,
              !.err = got.err,
              !.tenants = <<>>]

Succeeded(c) == c.pc = "done" /\ c.err = NoError

FetchUser(i) ==
    /\ ~InFlight
    /\ Usable(i)
    /\ call' = Started([IdleCall EXCEPT !.again = hist[i].resolved], i)
    /\ ret' = NoRet
    /\ UNCHANGED <<providerScopes, peer, providerName, sessions, hist>>

\* the discovery call answers
TenantsResponse(r) ==
    /\ call.pc = "tenants"
    /\ LET got == fetchAuthorizedTenants(r)
       IN  call' = Continued([call EXCEPT
                        !.resps = @ \o got.resps,
                        !.seen = Append(@, Seen("tenants", r))], got)
    /\ ret' = NoRet
    /\ UNCHANGED <<providerScopes, peer, providerName, sessions, hist>>

\* the profile call answers
ProfileResponse(r) ==
    /\ call.pc = "profile"
    /\ LET got == fetchTenantInformation(call.user, r)
       IN  call' = Finished([call EXCEPT
                        !.resps = @ \o got.resps,
                        !.seen = Append(@, Seen("profile", r))], got)
    /\ hist' = [hist EXCEPT ![call.sess].resolved = @ \/ Succeeded(call')]
    /\ ret' = NoRet
    /\ UNCHANGED <<providerScopes, peer, providerName, sessions>>

\* A second invocation of FetchUser, on another goroutine: the same code on
\* the same Provider, with a Session and answers of its own
FetchUserPeer(i) ==
    /\ ~PeerInFlight
    /\ Usable(i)
    /\ peer' = Started([IdleCall EXCEPT !.again = hist[i].resolved], i)
    /\ ret' = NoRet
    /\ UNCHANGED <<providerScopes, call, providerName, sessions, hist>>

TenantsResponsePeer(r) ==
    /\ peer.pc = "tenants"
    /\ LET got == fetchAuthorizedTenants(r)
       IN  peer' = Continued([peer EXCEPT
                        !.resps = @ \o got.resps,
                        !.seen = Append(@, Seen("tenants", r))], got)
    /\ ret' = NoRet
    /\ UNCHANGED <<providerScopes, call, providerName, sessions, hist>>

ProfileResponsePeer(r) ==
    /\ peer.pc = "profile"
    /\ LET got == fetchTenantInformation(peer.user, r)
       IN  peer' = Finished([peer EXCEPT
                        !.resps = @ \o got.resps,
                        !.seen = Append(@, Seen("profile", r))], got)
    /\ hist' = [hist EXCEPT ![peer.sess].resolved = @ \/ Succeeded(peer')]
    /\ ret' = NoRet
    /\ UNCHANGED <<providerScopes, call, providerName, sessions>>

----------------------------------------------------------------------------
(* Specifications *)

Init ==
    /\ providerScopes = callerScopes
    /\ providerName = DefaultProviderName
    /\ sessions = [i \in SessionIds |-> NoSession]
    /\ call = IdleCall
    /\ peer = IdleCall
    /\ ret = NoRet
    /\ hist = [i \in SessionIds |-> NoHist]

\* the operations that make or change a Session, and FetchUser
Lifecycle ==
    \/ \E state \in States : BeginAuth(state)
    \/ \E text \in Texts : UnmarshalSession(text)
    \/ \E i \in SessionIds, grant \in TokenGrants : Authorize(i, grant)
    \/ \E i \in SessionIds : FetchUser(i)
    \/ \E r \in TenantsAnswers : TenantsResponse(r)
    \/ \E r \in ProfileAnswers : ProfileResponse(r)

\* the operations that return a value and change nothing
Queries ==
    \/ \E t \in RefreshInputs, ok \in BOOLEAN : RefreshToken(t, ok)
    \/ \E i \in SessionIds : GetAuthURL(i)
    \/ \E i \in SessionIds : MarshalSession(i)
    \/ \E i \in SessionIds : StringSession(i)

Next ==
    \/ \E name \in Names : SetName(name)
    \/ Lifecycle

\* a Provider made by New with any scopes
InitNew ==
    /\ providerScopes \in SeqsUpTo(ScopeChoices, MaxScopes)
    /\ providerName = DefaultProviderName
    /\ sessions = [i \in SessionIds |-> NoSession]
    /\ call = IdleCall
    /\ peer = IdleCall
    /\ ret = NoRet
    /\ hist = [i \in SessionIds |-> NoHist]

NextNew ==
    \/ \E state \in States : BeginAuth(state)
    \/ \E i \in SessionIds : GetAuthURL(i)

\* New, then the authorization URLs its configuration gives
SpecNew == InitNew /\ [][NextNew]_vars

\* answers to the calls of two invocations at once: a refusal, or a list
\* of one
ConcTenantsAnswers ==
    {Answer(FALSE, TRUE, c, TRUE, "none", <<>>) : c \in BadStatuses}
    \cup {Answer(FALSE, TRUE, StatusOK, TRUE, "ok", <<Tenant(t)>>) :
            t \in TenantIds}
ConcProfileAnswers ==
    {Answer(FALSE, TRUE, c, TRUE, "none", <<>>) : c \in BadStatuses}
    \cup {Answer(FALSE, TRUE, StatusOK, TRUE, "ok", <<OrgA>>)}

\* two Sessions restored by the host, each for a goroutine of its own
InitConc ==
    /\ providerScopes = callerScopes
    /\ providerName = DefaultProviderName
    /\ \E t1, t2 \in {t \in Texts : WellFormed(t)} :
          sessions = [i \in SessionIds |->
                        IF i = "s1" THEN Unmarshal(t1) ELSE Unmarshal(t2)]
    /\ call = IdleCall
    /\ peer = IdleCall
    /\ ret = NoRet
    /\ hist = Track(sessions, [i \in SessionIds |-> NoHist])

NextConc ==
    \/ \E name \in Names : SetName(name)
    \/ \E i \in SessionIds : FetchUser(i)
    \/ \E r \in ConcTenantsAnswers : TenantsResponse(r)
    \/ \E r \in ConcProfileAnswers : ProfileResponse(r)
    \/ \E i \in SessionIds : FetchUserPeer(i)
    \/ \E r \in ConcTenantsAnswers : TenantsResponsePeer(r)
    \/ \E r \in ConcProfileAnswers : ProfileResponsePeer(r)

\* two goroutines calling FetchUser on one Provider, a third calling SetName
SpecConc == InitConc /\ [][NextConc]_vars

\* one Session of any shape, kept by the host
InitSerial ==
    /\ providerScopes = callerScopes
    /\ providerName = DefaultProviderName
    /\ \E s \in SessionValues :
          sessions = [i \in SessionIds |-> IF i = "s1" THEN s ELSE NoSession]
    /\ call = IdleCall
    /\ peer = IdleCall
    /\ ret = NoRet
    /\ hist = Track(sessions, [i \in SessionIds |-> NoHist])

\* the texts handed to UnmarshalSession: a text just serialized, with or
\* without something after it, and the texts of Texts and BrokenTexts
SerialTexts ==
    Texts \cup BrokenTexts
    \cup (IF ret.op \in {"Marshal", "String"}
          THEN {ret.text \o g : g \in Garbage} ELSE {})

NextSerial ==
    \/ \E i \in SessionIds : MarshalSession(i)
    \/ \E i \in SessionIds : StringSession(i)
    \/ \E text \in SerialTexts : UnmarshalSession(text)

\* a Session serialized and restored
SpecSerial == InitSerial /\ [][NextSerial]_vars

\* a Provider in use, renamed at any moment
Spec == Init /\ [][Next]_vars

NextOps ==
    \/ Lifecycle
    \/ Queries

\* a Provider that keeps its name, its Sessions queried at any moment
SpecOps == Init /\ [][NextOps]_vars

----------------------------------------------------------------------------
(* Properties *)

Began == call.pc # "idle"
Requested(url) == \E k \in 1..Len(call.reqs) : call.reqs[k].url = url
\* the k-th call of the invocation was answered with a response, untroubled
\* by the transport
Answered(k) == Len(call.seen) >= k /\ ~call.seen[k].transport

\* C1: FetchUser on a Session whose AccessToken is empty returns the
\* NoAccessToken error and sends no request, neither to the connections
\* endpoint nor to the organisation endpoint.
C1_NoTokenNoNetwork ==
    (Began /\ sessions[call.sess].AccessToken = "") =>
        /\ call.pc = "done"
        /\ call.err.kind = "NoAccessToken"
        /\ call.reqs = <<>>
        /\ call.seen = <<>>

\* the case of C1 on a Session that holds an AuthURL
C1_Witness ==
    /\ call.pc = "done"
    /\ call.err.kind = "NoAccessToken"
    /\ sessions[call.sess].AccessToken = ""
    /\ sessions[call.sess].AuthURL # ""

\* C2: when tenant discovery answers 200 with an empty tenant list,
\* FetchUser fails with NoAuthorizedTenants and the invocation sends no
\* profile request.
C2_EmptyTenantsStops ==
    (Answered(1) /\ call.seen[1].status = StatusOK
        /\ call.seen[1].decoded = "empty") =>
        /\ call.pc = "done"
        /\ call.err.kind = "NoAuthorizedTenants"
        /\ ~Requested(endpointProfile)

C2_Witness ==
    /\ call.pc = "done"
    /\ Answered(1)
    /\ call.seen[1].status = StatusOK
    /\ call.seen[1].decoded = "empty"
    /\ Requested(tenantsURL)

\* C3: when the profile call answers 200 with a well-formed body whose
\* Organisations array is empty, FetchUser returns the NoOrganizations error:
\* it does not panic and does not succeed.
C3_EmptyOrganisationsFails ==
    (Answered(2) /\ call.seen[2].status = StatusOK
        /\ call.seen[2].decoded = "empty") =>
        /\ call.pc = "done"
        /\ call.err.kind = "NoOrganizations"

\* C4: when FetchUser succeeds the Organisations array of the profile
\* response was not empty, and Name, NickName and UserID of the user are
\* Name, LegalName and ShortCode of its element 0.
C4_FirstOrganisation ==
    Succeeded(call) =>
        /\ Answered(2)
        /\ call.seen[2].decoded = "some"
        /\ Len(call.user.RawData.Organisations) > 0
        /\ call.user.Name = call.user.RawData.Organisations[1].Name
        /\ call.user.NickName = call.user.RawData.Organisations[1].LegalName
        /\ call.user.UserID = call.user.RawData.Organisations[1].ShortCode

\* success on an array of two different organisations
C4_Witness ==
    /\ Succeeded(call)
    /\ Len(call.user.RawData.Organisations) = 2
    /\ call.user.RawData.Organisations[1]
         # call.user.RawData.Organisations[2]

\* C5: a profile request carries the Authorization of the discovery request
\* of its invocation and, as Xero-Tenant-Id, the TenantID of element 0 of
\* the tenant list that the discovery call returned.
C5_ProfileRequestHeaders ==
    \A k \in 1..Len(call.reqs) :
        call.reqs[k].url = endpointProfile =>
            /\ k = 2
            /\ call.reqs[1].url = tenantsURL
            /\ call.reqs[k].Authorization = call.reqs[1].Authorization
            /\ call.pc = "profile" =>
                 call.reqs[k].XeroTenantId = call.tenants[1].TenantID

\* the profile request is out and the list holds a second, different tenant
C5_Witness ==
    /\ call.pc = "profile"
    /\ Requested(endpointProfile)
    /\ Len(call.tenants) = 2
    /\ call.tenants[2] # call.tenants[1]

\* C6: a call answered with a status other than 200 makes FetchUser fail
\* with UpstreamStatus of that status, and after such an answer from tenant
\* discovery no profile request is sent.
C6_UpstreamStatus ==
    \A k \in 1..Len(call.seen) :
        (Answered(k) /\ call.seen[k].status # StatusOK) =>
            /\ call.pc = "done"
            /\ call.err.kind = "UpstreamStatus"
            /\ call.err.code = call.seen[k].status
            /\ k = 1 => ~Requested(endpointProfile)

C6_Witness ==
    /\ call.pc = "done"
    /\ Answered(1)
    /\ call.seen[1].status \in BadStatuses
    /\ call.err.kind = "UpstreamStatus"

\* C7: every FetchUser on a Session with an access token sends its own
\* discovery request, and one that succeeds has sent the discovery request
\* and then the profile request, also after an earlier success on the same
\* Session.
C7_NoCaching ==
    /\ (Began /\ call.user.AccessToken # "") =>
          /\ Len(call.reqs) >= 1
          /\ call.reqs[1].url = tenantsURL
    /\ Succeeded(call) =>
          /\ Len(call.reqs) = 2
          /\ call.reqs[1].url = tenantsURL
          /\ call.reqs[2].url = endpointProfile

\* a second success on the same Session
C7_Witness == Succeeded(call) /\ call.again

\* the lifecycle state of a Session
Rank(ss, h, i) ==
    IF h[i].resolved THEN 3
    ELSE IF ss[i].AccessToken # "" THEN 2
    ELSE IF ss[i].AuthURL # "" THEN 1
    ELSE 0

\* C8 as stated: a Session whose identity is resolved has held an AuthURL
\* and an access token before.
C8_AllStatesPassed ==
    \A i \in SessionIds :
        hist[i].resolved => hist[i].issued /\ hist[i].acquired

\* C8, amended: a Session whose identity is resolved holds an access token,
\* and no step moves a Session to an earlier lifecycle state.
C8_TokenFirstNeverBack ==
    /\ [](\A i \in SessionIds :
            hist[i].resolved => sessions[i].AccessToken # "")
    /\ [][\A i \in SessionIds :
            Rank(sessions', hist', i) >= Rank(sessions, hist, i)]_vars

\* resolved, and never held an AuthURL
C8_Witness ==
    \E i \in SessionIds : hist[i].resolved /\ ~hist[i].issued

\* C9: no step changes the AuthURL of a Session once it is not empty, and
\* the steps of FetchUser change no field of any Session.
C9_AuthURLImmutable ==
    [][/\ \A i \in SessionIds :
            (sessions[i].live /\ sessions[i].AuthURL # "") =>
                sessions'[i].AuthURL = sessions[i].AuthURL
       /\ call' # call => sessions' = sessions]_vars

\* a FetchUser has returned on a Session with an AuthURL, and BeginAuth has
\* been called again since that Session was made
C9_Witness ==
    /\ call.pc = "done"
    /\ call.seen # <<>>
    /\ sessions[call.sess].AuthURL # ""
    /\ \A i \in SessionIds :
          sessions[i].AuthURL \in {AuthCodeURL(state) : state \in States}
    /\ sessions["s1"].AuthURL # sessions["s2"].AuthURL

\* C10: GetAuthURL fails on a Session whose AuthURL is empty and returns
\* the AuthURL of any other Session as it is.
C10_GetAuthURL ==
    ret.op = "GetAuthURL" =>
        IF sessions[ret.sess].AuthURL = ""
        THEN ret.err = "NoAuthURL"
        ELSE ret.err = "nil" /\ ret.val = sessions[ret.sess].AuthURL

\* GetAuthURL failed on a Session that holds an access token
C10_Witness ==
    /\ ret.op = "GetAuthURL"
    /\ ret.err = "NoAuthURL"
    /\ sessions[ret.sess].AccessToken # ""

\* the object of a text ends at j
ObjectAt(text, j) ==
    /\ text[1] = <<"{">>
    /\ text[j] = <<"}">>
    /\ \A k \in 2..(j - 1) :
          /\ Len(text[k]) = 2
          /\ text[k][1] = "ExpiresAt" => IsTimeText(text[k][2])

\* C11: Unmarshal of the text Marshal gives for a Session succeeds, and
\* Marshal of the Session it yields gives the same text again.
C11_MarshalRoundTrip ==
    \A i \in Live :
        (ret.op = "Unmarshal" /\ ret.text = Marshal(sessions[i])) =>
            /\ ret.err = "nil"
            /\ Marshal(sessions[ret.sess]) = Marshal(sessions[i])

\* the round trip of a Session with every field set
C11_Witness ==
    /\ ret.op = "Unmarshal"
    /\ ret.err = "nil"
    /\ ret.sess = "s2"
    /\ ret.text = Marshal(sessions["s1"])
    /\ sessions["s1"].AuthURL # ""
    /\ sessions["s1"].AccessToken # ""
    /\ sessions["s1"].RefreshToken # ""
    /\ sessions["s1"].ExpiresAt # 0

\* C12: Unmarshal of the text Marshal gives for a Session yields a Session
\* equal to it in every field, RefreshToken included.
C12_EveryFieldSurvives ==
    \A i \in Live :
        (ret.op = "Unmarshal" /\ ret.err = "nil" /\ ret.sess # i
            /\ ret.text = Marshal(sessions[i])) =>
            sessions[ret.sess] = sessions[i]

\* C13: Unmarshal of a text that starts with a well-formed object succeeds
\* and yields the Session of that object, whatever follows it; Unmarshal of
\* any other text fails with the Deserialize error.
C13_TrailingGarbage ==
    ret.op = "Unmarshal" =>
        IF \E j \in 2..Len(ret.text) : ObjectAt(ret.text, j)
        THEN LET j == CHOOSE k \in 2..Len(ret.text) : ObjectAt(ret.text, k)
             IN  /\ ret.err = "nil"
                 /\ sessions[ret.sess] = Unmarshal(SubSeq(ret.text, 1, j))
                 /\ \A m \in {ret.text[k] : k \in 2..(j - 1)} :
                      /\ m[1] = "AuthURL" =>
                            sessions[ret.sess].AuthURL = m[2]
                      /\ m[1] = "AccessToken" =>
                            sessions[ret.sess].AccessToken = m[2]
        ELSE ret.err = "Deserialize"

\* a text with a stray quote after its object was restored
C13_Witness ==
    /\ ret.op = "Unmarshal"
    /\ ret.err = "nil"
    /\ ret.text[Len(ret.text)] = <<"\"">>
    /\ sessions[ret.sess].AuthURL # ""
    /\ sessions[ret.sess].AccessToken # ""

\* sub occurs in s, before one of the queries AuthCodeURL writes
Contains(s, sub) ==
    \E state \in States : \E pre \in {"", "http://"} :
        s = pre \o sub \o "?" \o Query(state)

\* C14: for every state, BeginAuth succeeds and returns a Session whose
\* AuthURL is not empty and contains
\* https://login.xero.com/identity/connect/authorize, and whose AccessToken
\* is empty.
C14_BeginAuthURL ==
    ret.op = "BeginAuth" =>
        /\ ret.err = "nil"
        /\ sessions[ret.sess].live
        /\ sessions[ret.sess].AuthURL # ""
        /\ Contains(sessions[ret.sess].AuthURL,
                    "https://login.xero.com/identity/connect/authorize")
        /\ sessions[ret.sess].AccessToken = ""

\* BeginAuth has returned for a state that is not empty, on a Provider with
\* scopes of its own
C14_Witness ==
    /\ ret.op = "BeginAuth"
    /\ ret.val = "xyz"
    /\ Len(providerScopes) > 0
    /\ sessions[ret.sess].AuthURL # ""

\* C17: the scopes of the configuration are the five default scopes when
\* the caller gives none, and the caller's scopes in the caller's order and
\* nothing else when there are any, each followed by one space.
C17_ConfigScopes ==
    config.Scopes =
        IF Len(providerScopes) = 0
        THEN <<"openid ", "profile ", "email ", "offline_access ",
               "accounting.settings.read ">>
        ELSE [i \in 1..Len(providerScopes) |-> providerScopes[i] \o " "]

\* a Provider with two different scopes of its own has built a URL
C17_Witness ==
    /\ ret.op = "BeginAuth"
    /\ Len(providerScopes) = 2
    /\ providerScopes[1] # providerScopes[2]

\* C15: every error FetchUser returns names the provider and tells the
\* failing step: the discovery call, the profile call or the check before
\* either.
C15_ErrorsNameProviderAndStep ==
    (call.pc = "done" /\ call.err # NoError) =>
        /\ call.err.name \in Names
        /\ call.err.text # ""

\* the last answer an invocation has seen
LastSeen(c) == c.seen[Len(c.seen)]

\* C16: FetchUser invocations running at once on Sessions of their own,
\* with SetName running too, each return what they would return alone: the
\* tokens of their own Session, an error that fits their own last answer,
\* and one single provider name in the user and in the error.
C16_Independent ==
    \A c \in {call, peer} :
        c.pc = "done" =>
            /\ c.user.AccessToken = sessions[c.sess].AccessToken
            /\ c.user.RefreshToken = sessions[c.sess].RefreshToken
            /\ c.err.kind = "UpstreamStatus" =>
                   c.err.code = LastSeen(c).status
            /\ (c.err = NoError /\ Len(c.seen) > 0) =>
                   LastSeen(c).decoded = "some"
            /\ c.err.name # "" => c.err.name = c.user.Provider

\* an answer that makes its step fail: a transport error, a status other
\* than 200, a body that cannot be read or decoded
Failing(sn) == sn.transport \/ sn.status # StatusOK \/ sn.decoded = "none"

\* C18: in one invocation each endpoint is requested at most once, the
\* profile request goes out only after the discovery call has answered 200
\* with a list that is not empty, and the first failing step ends the
\* invocation with its error and without another request.
C18_NoRetryNoSkip ==
    /\ \A j, k \in 1..Len(call.reqs) :
          call.reqs[j].url = call.reqs[k].url => j = k
    /\ Len(call.reqs) > 0 => call.reqs[1].url = tenantsURL
    /\ Requested(endpointProfile) =>
          /\ Len(call.seen) >= 1
          /\ call.seen[1].step = "tenants"
          /\ ~Failing(call.seen[1])
          /\ call.seen[1].decoded = "some"
    /\ \A k \in 1..Len(call.seen) :
          Failing(call.seen[k]) =>
              /\ call.pc = "done"
              /\ Len(call.seen) = k
              /\ Len(call.reqs) = k
              /\ call.err.kind =
                    IF call.seen[k].transport THEN "Transport"
                    ELSE IF call.seen[k].status # StatusOK
                    THEN "UpstreamStatus"
                    ELSE IF call.err.kind = "Read" THEN "Read" ELSE "Decode"

\* the discovery call has failed and FetchUser has returned after one request
C18_Witness ==
    /\ call.pc = "done"
    /\ Len(call.seen) = 1
    /\ call.seen[1].status = 500
    /\ Len(call.reqs) = 1
    /\ call.err.kind = "UpstreamStatus"

\* C19: when FetchUser returns, every response it obtained has had its
\* body read to the end and has been closed, and the discovery response is
\* released before the profile request goes out.
C19_BodiesDrainedAndClosed ==
    /\ call.pc = "done" =>
          \A k \in 1..Len(call.resps) :
              call.resps[k].drained /\ call.resps[k].closed
    /\ Requested(endpointProfile) =>
          /\ Len(call.resps) >= 1
          /\ call.resps[1].step = "tenants"
          /\ call.resps[1].closed

\* what the user has of the Session and of the Provider
Copied(user) ==
    <<user.AccessToken, user.RefreshToken, user.ExpiresAt, user.Provider>>

\* C20: the user FetchUser returns, with an error or without, has the
\* AccessToken, RefreshToken and ExpiresAt of the Session it was called
\* with and the Provider that Name() gave when it was called: the step
\* that begins an invocation copies them, and no later step of the
\* invocation changes them.
C20_UserCopiesSession ==
    [][/\ (~InFlight /\ call' # call) =>
            Copied(call'.user) =
                <<sessions[call'.sess].AccessToken,
                  sessions[call'.sess].RefreshToken,
                  sessions[call'.sess].ExpiresAt,
                  providerName>>
       /\ (InFlight /\ call' # call) =>
            Copied(call'.user) = Copied(call.user)]_vars

\* FetchUser has returned an error and a user, called after SetName on a
\* Session that holds a grant
C20_Witness ==
    /\ call.pc = "done"
    /\ call.err # NoError
    /\ Len(call.seen) = 2
    /\ call.user.Provider = "xero-eu"
    /\ call.user.AccessToken = "tok2"
    /\ call.user.RefreshToken = "ref2"
    /\ call.user.ExpiresAt = 1

====
